---- MODULE Spec2Model ----
(***************************************************************************)
(* A model of the MySynthesiaCanvas chat front-ends.                        *)
(*                                                                         *)
(*   app = "chat" : src/mcp_chatbot.py, the tool-calling chat turn          *)
(*   app = "cmd"  : src/streamlit_mcp_chatbot.py, the slash-command turn    *)
(*   app = "check": src/mcp_tool_calling_support.py, the tool-support check *)
(*                                                                         *)
(* One session runs one of the apps (chosen in Init).  A turn is one run   *)
(* of the Streamlit script with an input; it is cut into steps at the      *)
(* blocking external calls, whose outcome the environment chooses.  Text   *)
(* is a sequence of strings: a command line is a sequence of characters,   *)
(* a formatted message a sequence of fragments (the markdown backquotes   *)
(* of the messages are left out).                                          *)
(***************************************************************************)
EXTENDS Integers, Sequences, FiniteSets, TLC

VARIABLES
    app,        \* which script this session runs
    messages,   \* st.session_state["messages"], the conversation store
    pc,         \* position of the turn-processing code
    turns,      \* number of turns started in the session
    turnStart,  \* the store when the current (or last) turn started
    data,       \* chat app: the decoded first response (<<>> before it arrives)
    calls,      \* external calls of the current turn, in order, with their result
    errKind,    \* how the turn failed: "none", "st.error" or "uncaught"
    errText,    \* the text shown with it
    frame,      \* cmd app: the dispatcher's decision for the running turn (<<>> before it)
    MODELS_TO_TEST, \* tool-support checker: the models main() goes through
    results     \* tool-support checker: main()'s list of results

vars ==
    <<app, messages, pc, turns, turnStart, data, calls, errKind, errText, frame,
      MODELS_TO_TEST, results>>

\* Number of turns of one session that are explored.
MaxTurns == 2

\* Longest text typed after a command word in the dispatcher specification.
MaxTail == 10

(***************************************************************************)
(* Generic helpers.                                                        *)
(***************************************************************************)
Range(s) == {s[i] : i \in DOMAIN s}

IsPrefix(s, t) == Len(s) <= Len(t) /\ SubSeq(t, 1, Len(s)) = s

Last(s) == s[Len(s)]

SetLast(s, v) == [s EXCEPT ![Len(s)] = v]

\* list.append on the conversation store
StoreAppend(store, msg) == Append(store, msg)

\* the calls of a turn made to operation op
CallsOf(op) == SelectSeq(calls, LAMBDA c : c.op = op)

(***************************************************************************)
(* src/mcp_chatbot.py                                                      *)
(***************************************************************************)
ChatOp == "POST /api/chat"

SystemPrompt == <<"You are an assistant for Obsidian that can call APIs via tools.">>

ChatInitMessages == <<[role |-> "system", content |-> SystemPrompt]>>

\* Parameters of the adapters registered in FUNCTION_MAP.
FUNCTION_MAP ==
    [list_files |-> {}, summarize_file |-> {"filename"}, create_summary_note |-> {}]

EmptyDict == [k \in {} |-> ""]

\* A JSON text is the sequence of its lexical tokens: punctuation, string
\* literals (without their quotes) and bare words.
Punct(c) == [t |-> "punct", v |-> c]

Str(s) == [t |-> "str", v |-> s]

Word(w) == [t |-> "word", v |-> w]

JSONDecodeError == [type |-> "raise", val |-> "JSONDecodeError"]

\* The members of a JSON object from token i on, added to acc; a key that comes
\* again replaces the earlier value, as in a Python dict.
RECURSIVE ParseMembers(_, _, _)
ParseMembers(text, i, acc) ==
    IF i + 3 > Len(text)
    THEN JSONDecodeError
    ELSE IF text[i].t = "str" /\ text[i + 1] = Punct(":") /\ text[i + 2].t = "str"
         THEN LET d == (text[i].v :> text[i + 2].v) @@ acc
              IN IF text[i + 3] = Punct("}")
                 THEN IF i + 3 = Len(text) THEN [type |-> "dict", val |-> d] ELSE JSONDecodeError
                 ELSE IF text[i + 3] = Punct(",")
                      THEN ParseMembers(text, i + 4, d)
                      ELSE JSONDecodeError
         ELSE JSONDecodeError

\* json.loads on the argument payloads the model sends (objects with string
\* members, the empty array, malformed text): the decoded value, or "raise" for
\* text that is no JSON document.
JsonLoads(text) ==
    IF text = <<Punct("{"), Punct("}")>>
    THEN [type |-> "dict", val |-> EmptyDict]
    ELSE IF text = <<Punct("["), Punct("]")>>
         THEN [type |-> "list", val |-> <<>>]
         ELSE IF Len(text) > 0 /\ text[1] = Punct("{")
              THEN ParseMembers(text, 2, EmptyDict)
              ELSE JSONDecodeError

\* DetectToolCall with the empty list falling through to the "tool" entry, as
\* message.get("tool_calls") or message.get("tool") would.
DetectToolCallOr(message) ==
    IF "tool_calls" \in DOMAIN message /\ Len(message["tool_calls"]) > 0
    THEN <<message["tool_calls"][1]>>
    ELSE IF "tool" \in DOMAIN message
         THEN <<message["tool"]>>
         ELSE <<>>

\* DetectToolCall taking the last entry of the list.
DetectToolCallLast(message) ==
    IF "tool_calls" \in DOMAIN message
    THEN IF Len(message["tool_calls"]) > 0
         THEN <<message["tool_calls"][Len(message["tool_calls"])]>>
         ELSE <<>>
    ELSE IF "tool" \in DOMAIN message
         THEN <<message["tool"]>>
         ELSE <<>>

\* Lines 143-151: the tool call selected from the response message, as a
\* sequence of length 0 (None) or 1.
DetectToolCall(message) ==
    IF "tool_calls" \in DOMAIN message
    THEN IF Len(message["tool_calls"]) > 0
         THEN <<message["tool_calls"][1]>>
         ELSE <<>>
    ELSE IF "tool" \in DOMAIN message
         THEN <<message["tool"]>>
         ELSE <<>>

\* Line 156: tool_call["function"].get("arguments", "{}")
GetArguments(tool_call) ==
    IF "arguments" \in DOMAIN tool_call.function
    THEN tool_call.function.arguments
    ELSE [type |-> "str", text |-> <<Punct("{"), Punct("}")>>]

\* The payload handed on as it arrived, a string left unparsed.
DecodeArgsSkipped(args) ==
    IF args.type = "str" THEN [type |-> "str", val |-> [text |-> args.text]] ELSE args

\* Lines 158-161: a string payload is parsed, anything else is used as is.
DecodeArgs(args) ==
    IF args.type = "str" THEN JsonLoads(args.text) ELSE args

\* Line 169: FUNCTION_MAP[fn_name](**fn_args) binds only a mapping whose keys
\* are exactly the adapter's parameters; otherwise Python raises TypeError.
Binds(fn_name, fn_args) ==
    /\ fn_args.type = "dict"
    /\ DOMAIN fn_args.val = FUNCTION_MAP[fn_name]

\* The result stored as it is, without serializing it.
JsonDumpsSkipped(result) == <<result>>

\* Line 170: json.dumps(result, indent=2)
JsonDumps(result) == <<"json:", result>>

ToolFailedText(fn_name, e) == <<"Tool call ", fn_name, " failed: ", e>>

UnknownToolText(fn_name) == <<"Unknown tool requested: ", fn_name>>

\* ---- what the environment may answer --------------------------------- *\
Prompts == {<<"list my notes">>}

ReplyTexts == {<<"hello">>, <<"summary">>}

ToolNames == {"list_files", "summarize_file", "create_summary_note", "rm_rf"}

ArgPayloads ==
    {[type |-> "str", text |-> <<Punct("{"), Punct("}")>>],
     [type |-> "str", text |-> <<Punct("{"), Str("filename"), Punct(":"), Str("a.md"), Punct("}")>>],
     [type |-> "str", text |-> <<Punct("{"), Str("filename"), Punct(":"), Str("b.md"), Punct(","),
                                 Str("filename"), Punct(":"), Str("a.md"), Punct("}")>>],
     [type |-> "str", text |-> <<Punct("{"), Str("filename"), Punct(":"), Str("a.md"), Punct(","),
                                 Str("mode"), Punct(":"), Str("brief"), Punct("}")>>],
     [type |-> "str", text |-> <<Punct("["), Punct("]")>>],
     [type |-> "str", text |-> <<Punct("{"), Word("filename")>>],
     [type |-> "dict", val |-> EmptyDict],
     [type |-> "dict", val |-> [filename |-> "a.md"]]}

ToolCalls ==
    {[function |-> [name |-> n]] : n \in ToolNames}
    \cup {[function |-> [name |-> n, arguments |-> a]] : n \in ToolNames, a \in ArgPayloads}

SecondCall == [function |-> [name |-> "create_summary_note"]]

ResponseMessages ==
    {[content |-> c] : c \in ReplyTexts}
    \cup {[content |-> <<"">>, tool_calls |-> <<>>]}
    \cup {[content |-> <<"">>, tool_calls |-> <<>>, tool |-> SecondCall]}
    \cup {[content |-> <<"">>, tool_calls |-> <<t>>] : t \in ToolCalls}
    \cup {[content |-> <<"">>, tool_calls |-> <<t, SecondCall>>] : t \in ToolCalls}
    \cup {[content |-> <<"">>, tool |-> t] : t \in ToolCalls}

\* requests.post raises (unreachable), raise_for_status raises (http_error),
\* or the body is decoded.
HttpFailures == {"ConnectionError", "HTTPError"}

AdapterResults == {"{files}"}

\* ---- the turn ---------------------------------------------------------- *\
\* A payload that carries the tool definitions on every request.
ChatPayloadToolsAlways(store, withTools) == [messages |-> store, tools |-> TRUE]

ChatPayload(store, withTools) == [messages |-> store, tools |-> withTools]

EndTurn(kind, text) ==
    /\ pc' = "awaiting"
    /\ errKind' = kind
    /\ errText' = text

\* Lines 121-134: the user message is appended and the first request sent.
ChatUserInput(prompt) ==
    /\ app = "chat"
    /\ pc = "awaiting"
    /\ turns < MaxTurns
    /\ turns' = turns + 1
    /\ turnStart' = messages
    /\ messages' = StoreAppend(messages, [role |-> "user", content |-> prompt])
    /\ calls' = <<[op |-> ChatOp, arg |-> ChatPayload(messages', TRUE), res |-> "pending"]>>
    /\ data' = <<>>
    /\ pc' = "request_sent"
    /\ errKind' = "none"
    /\ errText' = <<>>
    /\ UNCHANGED <<app, MODELS_TO_TEST, results, frame>>

\* Lines 134-135: the first request fails; nothing catches the exception.
ChatFirstFails(e) ==
    /\ app = "chat"
    /\ pc = "request_sent"
    /\ calls' = SetLast(calls, [Last(calls) EXCEPT !.res = e])
    /\ EndTurn("uncaught", <<e>>)
    /\ UNCHANGED <<app, MODELS_TO_TEST, results, frame, messages, turns, turnStart, data>>

\* ChatDispatch with the unknown-tool error also stored as an assistant message.
ChatDispatchStoresError(fn_name, fn_args) ==
    IF fn_name \in DOMAIN FUNCTION_MAP
    THEN IF Binds(fn_name, fn_args)
         THEN /\ calls' = Append(SetLast(calls, [Last(calls) EXCEPT !.res = "ok"]),
                                 [op |-> fn_name, arg |-> fn_args.val, res |-> "pending"])
              /\ pc' = "tool_called"
              /\ UNCHANGED <<errKind, errText, messages>>
         ELSE /\ calls' = Append(SetLast(calls, [Last(calls) EXCEPT !.res = "ok"]),
                                 [op |-> fn_name, arg |-> fn_args.val, res |-> "TypeError"])
              /\ EndTurn("st.error", ToolFailedText(fn_name, "TypeError"))
              /\ UNCHANGED messages
    ELSE /\ calls' = SetLast(calls, [Last(calls) EXCEPT !.res = "ok"])
         /\ EndTurn("st.error", UnknownToolText(fn_name))
         /\ messages' = StoreAppend(messages,
                [role |-> "assistant", content |-> UnknownToolText(fn_name)])

\* Lines 167-198 up to the adapter's own request: the registry lookup and the call.
ChatDispatch(fn_name, fn_args) ==
    IF fn_name \in DOMAIN FUNCTION_MAP
    THEN IF Binds(fn_name, fn_args)
         THEN /\ calls' = Append(SetLast(calls, [Last(calls) EXCEPT !.res = "ok"]),
                                 [op |-> fn_name, arg |-> fn_args.val, res |-> "pending"])
              /\ pc' = "tool_called"
              /\ UNCHANGED <<errKind, errText, messages>>
         ELSE /\ calls' = Append(SetLast(calls, [Last(calls) EXCEPT !.res = "ok"]),
                                 [op |-> fn_name, arg |-> fn_args.val, res |-> "TypeError"])
              /\ EndTurn("st.error", ToolFailedText(fn_name, "TypeError"))
              /\ UNCHANGED messages
    ELSE /\ calls' = SetLast(calls, [Last(calls) EXCEPT !.res = "ok"])
         /\ EndTurn("st.error", UnknownToolText(fn_name))
         /\ UNCHANGED messages

\* Lines 200-205: no tool call, the content is the assistant's reply.
ChatDirectReply(message) ==
    /\ messages' = StoreAppend(messages, [role |-> "assistant", content |-> message.content])
    /\ calls' = SetLast(calls, [Last(calls) EXCEPT !.res = "ok"])
    /\ EndTurn("none", <<>>)

\* Lines 136-205: the first response arrived with a success status.
ChatFirstResponse(body) ==
    /\ app = "chat"
    /\ pc = "request_sent"
    /\ data' = <<body>>
    /\ LET message == body.message
           tool_call == DetectToolCall(message)
       IN IF Len(tool_call) > 0
          THEN LET fn_name == tool_call[1].function.name
                   fn_args == DecodeArgs(GetArguments(tool_call[1]))
               IN IF fn_args.type = "raise"
                  THEN /\ calls' = SetLast(calls, [Last(calls) EXCEPT !.res = "ok"])
                       /\ EndTurn("uncaught", <<fn_args.val>>)
                       /\ UNCHANGED messages
                  ELSE ChatDispatch(fn_name, fn_args)
          ELSE ChatDirectReply(message)
    /\ UNCHANGED <<app, MODELS_TO_TEST, results, frame, turns, turnStart>>

\* ChatAdapterFails with the exception captured as the tool's result.
ChatAdapterFailsCaptured(e) ==
    /\ app = "chat"
    /\ pc = "tool_called"
    /\ messages' = StoreAppend(messages,
           [role |-> "tool", name |-> Last(calls).op, content |-> <<"json:", e>>])
    /\ calls' = SetLast(calls, [Last(calls) EXCEPT !.res = e])
    /\ EndTurn("st.error", ToolFailedText(Last(calls).op, e))
    /\ UNCHANGED <<app, MODELS_TO_TEST, results, frame, turns, turnStart, data>>

\* Lines 169, 195-196: the adapter's request fails and the adapter raises.
ChatAdapterFails(e) ==
    /\ app = "chat"
    /\ pc = "tool_called"
    /\ calls' = SetLast(calls, [Last(calls) EXCEPT !.res = e])
    /\ EndTurn("st.error", ToolFailedText(Last(calls).op, e))
    /\ UNCHANGED <<app, MODELS_TO_TEST, results, frame, messages, turns, turnStart, data>>

\* ChatAdapterReturns with the follow-up request sent while the adapter's own
\* request is still in flight.
ChatAdapterReturnsOverlapping(result) ==
    /\ app = "chat"
    /\ pc = "tool_called"
    /\ messages' = StoreAppend(messages,
           [role |-> "tool", name |-> Last(calls).op, content |-> JsonDumps(result)])
    /\ calls' = Append(calls,
                       [op |-> ChatOp, arg |-> ChatPayload(messages', FALSE), res |-> "pending"])
    /\ pc' = "followup_sent"
    /\ UNCHANGED <<app, MODELS_TO_TEST, results, frame, turns, turnStart, data, errKind, errText>>

\* ChatAdapterReturns with the tool message named after a fixed adapter.
ChatAdapterReturnsMisnamed(result) ==
    /\ app = "chat"
    /\ pc = "tool_called"
    /\ messages' = StoreAppend(messages,
           [role |-> "tool", name |-> "list_files", content |-> JsonDumps(result)])
    /\ calls' = Append(SetLast(calls, [Last(calls) EXCEPT !.res = "ok"]),
                       [op |-> ChatOp, arg |-> ChatPayload(messages', FALSE), res |-> "pending"])
    /\ pc' = "followup_sent"
    /\ UNCHANGED <<app, MODELS_TO_TEST, results, frame, turns, turnStart, data, errKind, errText>>

\* Lines 169-185: the adapter returns, the tool message is appended and the
\* follow-up request sent.
ChatAdapterReturns(result) ==
    /\ app = "chat"
    /\ pc = "tool_called"
    /\ messages' = StoreAppend(messages,
           [role |-> "tool", name |-> Last(calls).op, content |-> JsonDumps(result)])
    /\ calls' = Append(SetLast(calls, [Last(calls) EXCEPT !.res = "ok"]),
                       [op |-> ChatOp, arg |-> ChatPayload(messages', FALSE), res |-> "pending"])
    /\ pc' = "followup_sent"
    /\ UNCHANGED <<app, MODELS_TO_TEST, results, frame, turns, turnStart, data, errKind, errText>>

\* ChatFollowupFails with the tool message taken back out of the store.
ChatFollowupFailsRollback(e) ==
    /\ app = "chat"
    /\ pc = "followup_sent"
    /\ calls' = SetLast(calls, [Last(calls) EXCEPT !.res = e])
    /\ EndTurn("st.error", ToolFailedText(calls[Len(calls) - 1].op, e))
    /\ messages' = SubSeq(messages, 1, Len(messages) - 1)
    /\ UNCHANGED <<app, MODELS_TO_TEST, results, frame, turns, turnStart, data>>

\* ChatFollowupFails with the failed request sent again instead of ending the turn.
ChatFollowupFailsRetry(e) ==
    /\ app = "chat"
    /\ pc = "followup_sent"
    /\ calls' = SetLast(calls, [Last(calls) EXCEPT !.res = e])
    /\ UNCHANGED <<app, MODELS_TO_TEST, results, frame, messages, turns, turnStart, data, pc, errKind, errText>>

\* Lines 185-186, 195-196: the follow-up request fails inside the try.
ChatFollowupFails(e) ==
    /\ app = "chat"
    /\ pc = "followup_sent"
    /\ calls' = SetLast(calls, [Last(calls) EXCEPT !.res = e])
    /\ EndTurn("st.error", ToolFailedText(calls[Len(calls) - 1].op, e))
    /\ UNCHANGED <<app, MODELS_TO_TEST, results, frame, messages, turns, turnStart, data>>

\* ChatFollowupResponse with the summary shown but not stored.
ChatFollowupResponseDropped(final_msg) ==
    /\ app = "chat"
    /\ pc = "followup_sent"
    /\ calls' = SetLast(calls, [Last(calls) EXCEPT !.res = "ok"])
    /\ EndTurn("none", <<>>)
    /\ UNCHANGED <<app, MODELS_TO_TEST, results, frame, messages, turns, turnStart, data>>

\* Lines 187-193: the summary is appended as the assistant's reply.
ChatFollowupResponse(final_msg) ==
    /\ app = "chat"
    /\ pc = "followup_sent"
    /\ messages' = StoreAppend(messages, [role |-> "assistant", content |-> final_msg])
    /\ calls' = SetLast(calls, [Last(calls) EXCEPT !.res = "ok"])
    /\ EndTurn("none", <<>>)
    /\ UNCHANGED <<app, MODELS_TO_TEST, results, frame, turns, turnStart, data>>

ChatNext ==
    \/ \E p \in Prompts : ChatUserInput(p)
    \/ \E e \in HttpFailures : ChatFirstFails(e)
    \/ \E m \in ResponseMessages : ChatFirstResponse([message |-> m])
    \/ \E e \in HttpFailures : ChatAdapterFails(e)
    \/ \E r \in AdapterResults : ChatAdapterReturns(r)
    \/ \E e \in HttpFailures : ChatFollowupFails(e)
    \/ \E c \in ReplyTexts : ChatFollowupResponse(c)

(***************************************************************************)
(* Text: Python's str methods on sequences of characters.                  *)
(***************************************************************************)
Whitespace == {" ", "\t", "\n"}

UpperToLower ==
    ("A" :> "a") @@ ("B" :> "b") @@ ("C" :> "c") @@ ("D" :> "d") @@ ("E" :> "e") @@
    ("F" :> "f") @@ ("G" :> "g") @@ ("H" :> "h") @@ ("I" :> "i") @@ ("J" :> "j") @@
    ("K" :> "k") @@ ("L" :> "l") @@ ("M" :> "m") @@ ("N" :> "n") @@ ("O" :> "o") @@
    ("P" :> "p") @@ ("Q" :> "q") @@ ("R" :> "r") @@ ("S" :> "s") @@ ("T" :> "t") @@
    ("U" :> "u") @@ ("V" :> "v") @@ ("W" :> "w") @@ ("X" :> "x") @@ ("Y" :> "y") @@
    ("Z" :> "z")

LowerChar(c) == IF c \in DOMAIN UpperToLower THEN UpperToLower[c] ELSE c

\* str.lower
Lower(s) == [i \in DOMAIN s |-> LowerChar(s[i])]

RECURSIVE LStrip(_)
LStrip(s) ==
    IF Len(s) = 0 \/ s[1] \notin Whitespace THEN s ELSE LStrip(Tail(s))

RECURSIVE RStrip(_)
RStrip(s) ==
    IF Len(s) = 0 \/ s[Len(s)] \notin Whitespace THEN s ELSE RStrip(SubSeq(s, 1, Len(s) - 1))

\* str.strip
Strip(s) == RStrip(LStrip(s))

\* str.startswith
StartsWith(s, prefix) == IsPrefix(prefix, s)

\* str.find, 1-based; 0 when sep does not occur
Find(s, sep) ==
    LET hits == {i \in 1..(Len(s) - Len(sep) + 1) : SubSeq(s, i, i + Len(sep) - 1) = sep}
    IN IF hits = {} THEN 0 ELSE CHOOSE i \in hits : \A j \in hits : i <= j

\* str.split(sep, maxsplit)
RECURSIVE Split(_, _, _)
Split(s, sep, maxsplit) ==
    LET i == Find(s, sep)
    IN IF maxsplit = 0 \/ i = 0
       THEN <<s>>
       ELSE <<SubSeq(s, 1, i - 1)>> \o Split(SubSeq(s, i + Len(sep), Len(s)), sep, maxsplit - 1)

(***************************************************************************)
(* src/streamlit_mcp_chatbot.py                                            *)
(***************************************************************************)
\* line 338: "/help"
P_help ==
    <<"/", "h", "e", "l", "p">>

\* line 353: "/obsidian_list_all"
P_list_all ==
    <<"/", "o", "b", "s", "i", "d", "i", "a", "n", "_", "l", "i", "s", "t", "_", "a", "l", "l">>

\* line 355: "/obsidian_list_dir "
P_list_dir ==
    <<"/", "o", "b", "s", "i", "d", "i", "a", "n", "_", "l", "i", "s", "t", "_", "d", "i", "r", " ">>

\* line 358: "/obsidian_get_content "
P_get_content ==
    <<"/", "o", "b", "s", "i", "d", "i", "a", "n", "_", "g", "e", "t", "_", "c", "o", "n", "t", "e", "n", "t", " ">>

\* line 361: "/obsidian_append "
P_append ==
    <<"/", "o", "b", "s", "i", "d", "i", "a", "n", "_", "a", "p", "p", "e", "n", "d", " ">>

\* line 369: "/obsidian_patch "
P_patch ==
    <<"/", "o", "b", "s", "i", "d", "i", "a", "n", "_", "p", "a", "t", "c", "h", " ">>

\* line 379: "/obsidian_search "
P_search ==
    <<"/", "o", "b", "s", "i", "d", "i", "a", "n", "_", "s", "e", "a", "r", "c", "h", " ">>

\* line 382: "/obsidian_delete "
P_delete ==
    <<"/", "o", "b", "s", "i", "d", "i", "a", "n", "_", "d", "e", "l", "e", "t", "e", " ">>

\* line 385: "/docker_list_images"
P_list_images ==
    <<"/", "d", "o", "c", "k", "e", "r", "_", "l", "i", "s", "t", "_", "i", "m", "a", "g", "e", "s">>

\* line 387: "/docker_list_containers"
P_list_containers ==
    <<"/", "d", "o", "c", "k", "e", "r", "_", "l", "i", "s", "t", "_", "c", "o", "n", "t", "a", "i", "n", "e", "r", "s">>

\* line 389: "/docker_create "
P_create ==
    <<"/", "d", "o", "c", "k", "e", "r", "_", "c", "r", "e", "a", "t", "e", " ">>

HelpText == <<"### Available Commands: ...">>

UsageAppend == <<"Invalid command format. Usage: /obsidian_append [filepath] [content]">>

UsagePatch ==
    <<"Invalid command format. Usage: /obsidian_patch [filepath] [patch_type] [patch_target] [new_content]">>

Unrecognized == <<"I don't understand that command. Please type /help for a list of commands.">>

\* The line lowercased but not stripped.
NormalizeUnstripped(prompt) == Lower(prompt)

\* The line stripped but left in the case it was typed in.
NormalizeCased(prompt) == Strip(prompt)

\* Line 336: command = prompt.strip().lower()
Normalize(prompt) == Lower(Strip(prompt))

\* Lines 356, 359, 363, 371, 380, 383, 390: command.split(prefix, 1)[1].strip()
Remainder(command, prefix) == Strip(Split(command, prefix, 1)[2])

\* Branch with the list-all command recognised by the shorter "/obsidian_list".
BranchShortList(command) ==
    IF StartsWith(command, P_help) THEN "help"
    ELSE IF StartsWith(command, SubSeq(P_list_all, 1, Len(P_list_all) - Len(<<"_", "a", "l", "l">>)))
         THEN "list_all"
    ELSE IF StartsWith(command, P_list_dir) THEN "list_dir"
    ELSE IF StartsWith(command, P_get_content) THEN "get_content"
    ELSE IF StartsWith(command, P_append) THEN "append"
    ELSE IF StartsWith(command, P_patch) THEN "patch"
    ELSE IF StartsWith(command, P_search) THEN "search"
    ELSE IF StartsWith(command, P_delete) THEN "delete"
    ELSE IF StartsWith(command, P_list_images) THEN "list_images"
    ELSE IF StartsWith(command, P_list_containers) THEN "list_containers"
    ELSE IF StartsWith(command, P_create) THEN "create"
    ELSE "else"

\* Lines 338-393: the first branch of the if/elif chain whose prefix matches.
Branch(command) ==
    IF StartsWith(command, P_help) THEN "help"
    ELSE IF StartsWith(command, P_list_all) THEN "list_all"
    ELSE IF StartsWith(command, P_list_dir) THEN "list_dir"
    ELSE IF StartsWith(command, P_get_content) THEN "get_content"
    ELSE IF StartsWith(command, P_append) THEN "append"
    ELSE IF StartsWith(command, P_patch) THEN "patch"
    ELSE IF StartsWith(command, P_search) THEN "search"
    ELSE IF StartsWith(command, P_delete) THEN "delete"
    ELSE IF StartsWith(command, P_list_images) THEN "list_images"
    ELSE IF StartsWith(command, P_list_containers) THEN "list_containers"
    ELSE IF StartsWith(command, P_create) THEN "create"
    ELSE "else"

Reply(branch, text) == [branch |-> branch, fn |-> "none", args |-> <<>>, reply |-> text]

Invoke(branch, fn, args) == [branch |-> branch, fn |-> fn, args |-> args, reply |-> <<>>]

\* Lines 362-368: parts[1] raises IndexError when the split gave one part.
DispatchAppend(command) ==
    LET parts == Split(Remainder(command, P_append), <<" ">>, 1)
    IN IF Len(parts) >= 2
       THEN Invoke("append", "append_content", <<parts[1], parts[2]>>)
       ELSE Reply("append", UsageAppend)

\* DispatchPatch with the split not bounded: split(" ") in place of split(" ", 3).
DispatchPatchUnbounded(command) ==
    LET parts == Split(Remainder(command, P_patch), <<" ">>, -1)
    IN IF Len(parts) >= 4
       THEN Invoke("patch", "patch_content", <<parts[1], parts[2], parts[3], parts[4]>>)
       ELSE Reply("patch", UsagePatch)

\* Lines 370-378: parts[1..3] raise IndexError when the split gave fewer than four parts.
DispatchPatch(command) ==
    LET parts == Split(Remainder(command, P_patch), <<" ">>, 3)
    IN IF Len(parts) >= 4
       THEN Invoke("patch", "patch_content", <<parts[1], parts[2], parts[3], parts[4]>>)
       ELSE Reply("patch", UsagePatch)

\* Lines 338-393: what the dispatcher does with the normalized line: the
\* adapter it calls and with which arguments, or the text it answers itself.
Dispatch(command) ==
    LET branch == Branch(command)
    IN CASE branch = "help" -> Reply(branch, HelpText)
         [] branch = "list_all" -> Invoke(branch, "list_files_in_vault", <<>>)
         [] branch = "list_dir" ->
                Invoke(branch, "list_files_in_dir", <<Remainder(command, P_list_dir)>>)
         [] branch = "get_content" ->
                Invoke(branch, "get_file_contents", <<Remainder(command, P_get_content)>>)
         [] branch = "append" -> DispatchAppend(command)
         [] branch = "patch" -> DispatchPatch(command)
         [] branch = "search" ->
                Invoke(branch, "search_obsidian_vault", <<Remainder(command, P_search)>>)
         [] branch = "delete" ->
                Invoke(branch, "delete_obsidian_file", <<Remainder(command, P_delete)>>)
         [] branch = "list_images" -> Invoke(branch, "list_docker_images", <<>>)
         [] branch = "list_containers" -> Invoke(branch, "list_docker_containers", <<>>)
         [] branch = "create" ->
                Invoke(branch, "create_docker_container", <<Remainder(command, P_create)>>)
         [] OTHER -> Reply(branch, Unrecognized)

VaultAdapters ==
    {"list_files_in_vault", "list_files_in_dir", "get_file_contents", "append_content",
     "patch_content", "search_obsidian_vault", "delete_obsidian_file"}

DockerListAdapters == {"list_docker_images", "list_docker_containers"}

RECURSIVE Bullets(_)
Bullets(items) ==
    IF Len(items) = 0 THEN <<>> ELSE <<"- ", items[1], "\n">> \o Bullets(Tail(items))

\* dict.get(key, default) on a decoded JSON body
Get(body, key, default) == IF key \in DOMAIN body THEN body[key] ELSE default

\* Lines 40-242: what a vault adapter returns when its request succeeded.
VaultResult(fn, args, body) ==
    CASE fn = "list_files_in_vault" ->
            IF Len(Get(body, "files", <<>>)) = 0
            THEN <<"No files found in the Obsidian vault.">>
            ELSE <<"### Obsidian Files\n">> \o Bullets(Get(body, "files", <<>>))
      [] fn = "list_files_in_dir" ->
            IF Len(Get(body, "files", <<>>)) = 0
            THEN <<"No files found in directory ">> \o args[1] \o <<".">>
            ELSE <<"### Files in ">> \o args[1] \o <<"\n">> \o Bullets(Get(body, "files", <<>>))
      [] fn = "get_file_contents" -> Get(body, "content", <<"File content not found.">>)
      [] fn = "append_content" -> <<"Content successfully appended.">>
      [] fn = "patch_content" -> <<"Content successfully patched.">>
      [] fn = "search_obsidian_vault" ->
            IF Len(Get(body, "results", <<>>)) = 0
            THEN <<"No results found for query ">> \o args[1] \o <<".">>
            ELSE <<"### Search Results for ">> \o args[1] \o <<"\n">>
                 \o Bullets(Get(body, "results", <<>>))
      [] fn = "delete_obsidian_file" -> <<"File ">> \o args[1] \o <<" successfully deleted.">>

\* Lines 62-63, 95-96, 120-121, 146-147, 183-184, 216-217, 241-242: the
\* except RequestException clause of each vault adapter.
\* An error string that tells the failure but not which operation failed.
VaultErrorGeneric(fn, e) == <<"Error from Obsidian: ", e>>

VaultError(fn, e) ==
    CASE fn = "list_files_in_vault" -> <<"Error listing files from Obsidian: ", e>>
      [] fn = "list_files_in_dir" -> <<"Error listing files in directory from Obsidian: ", e>>
      [] fn = "get_file_contents" -> <<"Error reading file from Obsidian: ", e>>
      [] fn = "append_content" -> <<"Error appending content to Obsidian: ", e>>
      [] fn = "patch_content" -> <<"Error patching content to Obsidian: ", e>>
      [] fn = "search_obsidian_vault" -> <<"Error searching Obsidian vault: ", e>>
      [] fn = "delete_obsidian_file" -> <<"Error deleting file from Obsidian: ", e>>

\* ', '.join(tags)
RECURSIVE JoinComma(_)
JoinComma(items) ==
    IF Len(items) = 0 THEN <<>>
    ELSE IF Len(items) = 1 THEN <<items[1]>>
    ELSE <<items[1], ", ">> \o JoinComma(Tail(items))

\* Lines 256-260: the listing of the images.
RECURSIVE ImageLines(_)
ImageLines(images) ==
    IF Len(images) = 0 THEN <<>>
    ELSE <<"- **ID:** ", images[1].short_id, "\n", "  - **Tags:** ">>
         \o JoinComma(images[1].tags) \o <<"\n">> \o ImageLines(Tail(images))

\* Lines 274-280: the listing of the running containers.
RECURSIVE ContainerLines(_)
ContainerLines(containers) ==
    IF Len(containers) = 0 THEN <<>>
    ELSE <<"- **Name:** ", containers[1].name, "\n",
           "  - **ID:** ", containers[1].short_id, "\n",
           "  - **Image:** ",
           IF Len(containers[1].image.tags) > 0 THEN containers[1].image.tags[1] ELSE "N/A", "\n",
           "  - **Status:** ", containers[1].status, "\n">>
         \o ContainerLines(Tail(containers))

\* Lines 252-260 and 270-280: what a listing adapter returns for the list it got.
DockerListResult(fn, items) ==
    IF fn = "list_docker_images"
    THEN IF Len(items) = 0 THEN <<"No Docker images found.">>
         ELSE <<"### Docker Images\n">> \o ImageLines(items)
    ELSE IF Len(items) = 0 THEN <<"No running containers found.">>
         ELSE <<"### Running Docker Containers\n">> \o ContainerLines(items)

\* Lines 261-262 and 281-282
DockerListError(fn, e) ==
    IF fn = "list_docker_images"
    THEN <<"Error listing images: ", e>>
    ELSE <<"Error listing containers: ", e>>

\* Line 299
CreatingText(image_name) == <<"Creating container from image ">> \o image_name \o <<"...">>

\* Line 306
PullingText(image_name) ==
    <<"Image ">> \o image_name \o <<" not found locally. Pulling from Docker Hub...">>

\* Line 310
CreatedText(container, image_name) ==
    <<"Container ", container.name, " successfully created and started from ">>
    \o image_name \o <<". ID: ", container.short_id>>

\* Line 312
NotOnHubText(image_name) == <<"Error: Image ">> \o image_name \o <<" not found on Docker Hub.">>

\* Line 314
CreateErrorText(e) == <<"Error creating container: ", e>>

\* ---- what the environment may answer --------------------------------- *\
VaultBodies ==
    {EmptyDict, [files |-> <<"a.md", "b.md">>], [content |-> <<"# note">>],
     [results |-> <<"a.md">>]}

Image == [short_id |-> "sha256:1f", tags |-> <<"alpine:latest", "alpine:3">>]

Container ==
    [name |-> "brave_turing", short_id |-> "0a1b2c3d4e5f", id |-> "0a1b2c3d4e5f6071",
     image |-> Image, status |-> "running"]

DockerLists(fn) ==
    IF fn = "list_docker_images" THEN {<<>>, <<Image>>} ELSE {<<>>, <<Container>>}

DockerFailures == {"ImageNotFound", "APIError"}

\* ---- the turn ---------------------------------------------------------- *\
Pending(op, arg) == [op |-> op, arg |-> arg, res |-> "pending"]

Returned(res) == SetLast(calls, [Last(calls) EXCEPT !.res = res])

\* Lines 395-400: the result is shown and appended as the assistant's message.
CmdFinish(response_content) ==
    /\ messages' = StoreAppend(messages, [role |-> "assistant", content |-> response_content])
    /\ pc' = "awaiting"

\* Lines 327-400 up to the adapter's first external call.
CmdTurn(prompt) ==
    /\ app = "cmd"
    /\ pc = "awaiting"
    /\ turns' = turns + 1
    /\ turnStart' = messages
    /\ errKind' = "none"
    /\ errText' = <<>>
    /\ LET store == StoreAppend(messages, [role |-> "user", content |-> prompt])
           d == Dispatch(Normalize(prompt))
       IN /\ frame' = <<d>>
          /\ IF d.fn = "none"
             THEN /\ messages' = StoreAppend(store, [role |-> "assistant", content |-> d.reply])
                  /\ calls' = <<>>
                  /\ pc' = "awaiting"
             ELSE /\ messages' = store
                  /\ IF d.fn \in VaultAdapters
                     THEN /\ calls' = <<Pending(d.fn, d.args)>>
                          /\ pc' = "vault_called"
                     ELSE /\ calls' = <<Pending("docker.from_env", <<>>)>>
                          /\ pc' = "docker_env"
    /\ UNCHANGED <<app, MODELS_TO_TEST, results, data>>

\* The except clause of a vault adapter: the request raised.
VaultFails(e) ==
    /\ app = "cmd"
    /\ pc = "vault_called"
    /\ calls' = Returned(e)
    /\ CmdFinish(VaultError(frame[1].fn, e))
    /\ UNCHANGED <<app, MODELS_TO_TEST, results, turns, turnStart, data, frame, errKind, errText>>

\* The request of a vault adapter succeeded.
VaultReturns(body) ==
    /\ app = "cmd"
    /\ pc = "vault_called"
    /\ calls' = Returned("ok")
    /\ CmdFinish(VaultResult(frame[1].fn, frame[1].args, body))
    /\ UNCHANGED <<app, MODELS_TO_TEST, results, turns, turnStart, data, frame, errKind, errText>>

\* The adapters that read the decoded body with response.json().get(...).
BodyReaders ==
    {"list_files_in_vault", "list_files_in_dir", "get_file_contents", "search_obsidian_vault"}

\* The request succeeded with a body that decodes to something other than a
\* JSON object (an array, say): .get raises AttributeError, which the except
\* clause for RequestException does not catch, so the script run ends before
\* the assistant message is appended.
VaultBodyRaises ==
    /\ app = "cmd"
    /\ pc = "vault_called"
    /\ frame[1].fn \in BodyReaders
    /\ calls' = Returned("ok")
    /\ EndTurn("uncaught", <<"AttributeError">>)
    /\ UNCHANGED <<app, MODELS_TO_TEST, results, messages, turns, turnStart, data, frame>>

\* Lines 27-35, 249-250, 267-268, 295-296: docker.from_env() raised.
DockerEnvFails(e) ==
    /\ app = "cmd"
    /\ pc = "docker_env"
    /\ calls' = Returned(e)
    /\ errKind' = "st.error"
    /\ errText' = <<"Error connecting to Docker: ", e>>
    /\ CmdFinish(<<"Failed to connect to Docker.">>)
    /\ UNCHANGED <<app, MODELS_TO_TEST, results, turns, turnStart, data, frame>>

\* Lines 27-32 and 252, 270, 298-304: the client is there; the adapter makes
\* its first call to the daemon.
DockerEnvReturns ==
    /\ app = "cmd"
    /\ pc = "docker_env"
    /\ IF frame[1].fn = "create_docker_container"
       THEN /\ messages' = StoreAppend(messages,
                   [role |-> "assistant", content |-> CreatingText(frame[1].args[1])])
            /\ calls' = Append(Returned("ok"), Pending("images.get", frame[1].args[1]))
            /\ pc' = "docker_get"
       ELSE /\ calls' = Append(Returned("ok"),
                   Pending(IF frame[1].fn = "list_docker_images"
                           THEN "images.list" ELSE "containers.list", <<>>))
            /\ pc' = "docker_list"
            /\ UNCHANGED messages
    /\ UNCHANGED <<app, MODELS_TO_TEST, results, turns, turnStart, data, frame, errKind, errText>>

DockerListFails(e) ==
    /\ app = "cmd"
    /\ pc = "docker_list"
    /\ calls' = Returned(e)
    /\ CmdFinish(DockerListError(frame[1].fn, e))
    /\ UNCHANGED <<app, MODELS_TO_TEST, results, turns, turnStart, data, frame, errKind, errText>>

DockerListReturns ==
    /\ app = "cmd"
    /\ pc = "docker_list"
    /\ calls' = Returned("ok")
    /\ \E items \in DockerLists(frame[1].fn) : CmdFinish(DockerListResult(frame[1].fn, items))
    /\ UNCHANGED <<app, MODELS_TO_TEST, results, turns, turnStart, data, frame, errKind, errText>>

\* Lines 311-314: the except clauses of create_docker_container.
CreateFails(e) ==
    /\ calls' = Returned(e)
    /\ CmdFinish(IF e = "ImageNotFound"
                 THEN NotOnHubText(frame[1].args[1])
                 ELSE CreateErrorText(e))

\* Line 309: client.containers.run(image_name, detach=True) is called.
CallRun(res) == calls' = Append(Returned(res), Pending("containers.run", frame[1].args[1]))

\* DockerGetReturns with the pull left out: run is called on an absent image.
DockerGetReturnsNoPull(res) ==
    /\ app = "cmd"
    /\ pc = "docker_get"
    /\ IF res = "found" \/ res = "ImageNotFound"
       THEN /\ calls' = Append(Returned(res), Pending("containers.run", frame[1].args[1]))
            /\ pc' = "docker_run"
            /\ UNCHANGED messages
       ELSE CreateFails(res)
    /\ UNCHANGED <<app, MODELS_TO_TEST, results, turns, turnStart, data, frame, errKind, errText>>

\* Lines 303-309: client.images.get returned: the image is there ("found"),
\* is not ("ImageNotFound"), or the daemon failed.
DockerGetReturns(res) ==
    /\ app = "cmd"
    /\ pc = "docker_get"
    /\ IF res = "found"
       THEN /\ CallRun(res)
            /\ pc' = "docker_run"
            /\ UNCHANGED messages
       ELSE IF res = "ImageNotFound"
       THEN /\ messages' = StoreAppend(messages,
                   [role |-> "assistant", content |-> PullingText(frame[1].args[1])])
            /\ calls' = Append(Returned(res), Pending("images.pull", frame[1].args[1]))
            /\ pc' = "docker_pull"
       ELSE CreateFails(res)
    /\ UNCHANGED <<app, MODELS_TO_TEST, results, turns, turnStart, data, frame, errKind, errText>>

\* Lines 307-309: client.images.pull returned or raised.
DockerPullReturns(res) ==
    /\ app = "cmd"
    /\ pc = "docker_pull"
    /\ IF res = "ok"
       THEN /\ CallRun(res)
            /\ pc' = "docker_run"
            /\ UNCHANGED messages
       ELSE CreateFails(res)
    /\ UNCHANGED <<app, MODELS_TO_TEST, results, turns, turnStart, data, frame, errKind, errText>>

\* Lines 309-310: client.containers.run returned the container.
DockerRunReturns(container) ==
    /\ app = "cmd"
    /\ pc = "docker_run"
    /\ calls' = Returned("ok")
    /\ CmdFinish(CreatedText(container, frame[1].args[1]))
    /\ UNCHANGED <<app, MODELS_TO_TEST, results, turns, turnStart, data, frame, errKind, errText>>

\* Lines 309, 311-314: client.containers.run raised.
DockerRunFails(e) ==
    /\ app = "cmd"
    /\ pc = "docker_run"
    /\ CreateFails(e)
    /\ UNCHANGED <<app, MODELS_TO_TEST, results, turns, turnStart, data, frame, errKind, errText>>

\* The adapters' steps, shared by the session and the dispatcher specification.
CmdAdapterNext ==
    \/ \E e \in HttpFailures : VaultFails(e)
    \/ \E body \in VaultBodies : VaultReturns(body)
    \/ VaultBodyRaises
    \/ DockerEnvFails("DockerException")
    \/ DockerEnvReturns
    \/ DockerListFails("APIError")
    \/ DockerListReturns
    \/ \E res \in {"found"} \cup DockerFailures : DockerGetReturns(res)
    \/ \E res \in {"ok"} \cup DockerFailures : DockerPullReturns(res)
    \/ DockerRunReturns(Container)
    \/ \E e \in DockerFailures : DockerRunFails(e)

\* ---- the lines a user may type ----------------------------------------- *\
CommandWords ==
    {P_help, P_list_all, P_list_dir, P_get_content, P_append, P_patch, P_search,
     P_delete, P_list_images, P_list_containers, P_create}

\* str.upper, to type a line in capitals
UpperChar(c) ==
    IF \E u \in DOMAIN UpperToLower : UpperToLower[u] = c
    THEN CHOOSE u \in DOMAIN UpperToLower : UpperToLower[u] = c
    ELSE c

Upper(s) == [i \in DOMAIN s |-> UpperChar(s[i])]

TailChars == {" ", "B"}

Tails == UNION {[1..n -> TailChars] : n \in 0..MaxTail}

\* A command word without its separating space (or no command word, or the
\* start of one) followed by any text; as typed, or in capitals after a space.
PlainLines == {RStrip(w) \o t : w \in CommandWords \cup {<<>>, <<"/", "o", "b", "s">>}, t \in Tails}

ParseLines == PlainLines \cup {<<" ">> \o Upper(l) : l \in PlainLines}

SessionLines ==
    {P_help,
     P_list_dir \o <<"B">>,
     P_append \o <<"a">>,
     P_list_images,
     P_create \o <<"a", "l", "p", "i", "n", "e">>,
     <<"h", "i">>}

\* A turn of the session.
CmdUserInput ==
    /\ turns < MaxTurns
    /\ \E prompt \in SessionLines : CmdTurn(prompt)

\* The one turn of the dispatcher specification, on any line.
CmdParseInput ==
    /\ turns = 0
    /\ \E prompt \in ParseLines : CmdTurn(prompt)

(***************************************************************************)
(* Specifications.                                                         *)
(***************************************************************************)
InitChat ==
    /\ app = "chat"
    /\ messages = ChatInitMessages
    /\ pc = "awaiting"
    /\ turns = 0
    /\ turnStart = ChatInitMessages
    /\ data = <<>>
    /\ calls = <<>>
    /\ errKind = "none"
    /\ errText = <<>>
    /\ frame = <<>>
    /\ MODELS_TO_TEST = <<>>
    /\ results = <<>>

\* Lines 23-24: the command app starts with an empty store.
InitCmd ==
    /\ app = "cmd"
    /\ messages = <<>>
    /\ pc = "awaiting"
    /\ turns = 0
    /\ turnStart = <<>>
    /\ data = <<>>
    /\ calls = <<>>
    /\ errKind = "none"
    /\ errText = <<>>
    /\ frame = <<>>
    /\ MODELS_TO_TEST = <<>>
    /\ results = <<>>

Init == InitChat \/ InitCmd

Next == ChatNext \/ CmdUserInput \/ CmdAdapterNext

\* Sessions of either app.
Spec == Init /\ [][Next]_vars

\* An external call of the chat turn returns a response or an error.
ChatReturns ==
    \/ \E e \in HttpFailures : ChatFirstFails(e)
    \/ \E m \in ResponseMessages : ChatFirstResponse([message |-> m])
    \/ \E e \in HttpFailures : ChatAdapterFails(e)
    \/ \E r \in AdapterResults : ChatAdapterReturns(r)
    \/ \E e \in HttpFailures : ChatFollowupFails(e)
    \/ \E c \in ReplyTexts : ChatFollowupResponse(c)

\* Sessions in which every external call of a chat turn eventually returns;
\* the user is free never to type again.
SpecLive == Spec /\ WF_vars(ChatReturns)

NextParse == CmdParseInput \/ CmdAdapterNext

\* One turn of the command app on every line up to the bound.
SpecParse == InitCmd /\ [][NextParse]_vars

(***************************************************************************)
(* src/mcp_tool_calling_support.py: the tool-support checker.  One run of  *)
(* the script: the import-time query for the server's models, then main(). *)
(***************************************************************************)
\* Longest list of models the server's /api/models answer holds.
MaxModels == 2

\* Lines 17-27: the static list.
StaticModels ==
    <<"llama3.1:latest", "llama2:latest", "nomic-embed-text:latest",
      "mxbai-embed-large:latest", "deepseek-coder:latest", "qwen2.5:latest",
      "llama3:latest", "mistral:latest", "gemma3:latest">>

ModelsOp == "GET /api/models"

\* What the server may answer to /api/models: a list whose items are dicts
\* with a name, plain strings, or dicts without a name; or no list at all.
ListedNames == {"phi3:latest", "llama3.1:latest"}

ListedItems ==
    {[type |-> "dict", name |-> n] : n \in ListedNames}
    \cup {[type |-> "str", val |-> n] : n \in ListedNames}
    \cup {[type |-> "dict"]}

ModelListings ==
    {[type |-> "list", items |-> l] : l \in UNION {[1..n -> ListedItems] : n \in 0..MaxModels}}
    \cup {[type |-> "dict"]}

\* Outcomes of requests.post in test_model_tools: it raises, or a status code.
PostFailures == {"ConnectionError"}

StatusCodes == {"200", "400"}

\* Lines 36-42: the names found in the items of a list.
RECURSIVE ItemNames(_)
ItemNames(items) ==
    IF Len(items) = 0 THEN <<>>
    ELSE (IF items[1].type = "dict" /\ "name" \in DOMAIN items[1]
          THEN <<items[1].name>>
          ELSE IF items[1].type = "str" THEN <<items[1].val>> ELSE <<>>)
         \o ItemNames(Tail(items))

\* Lines 32-43: names extracted from the answer of /api/models.
Names(status_code, body) ==
    IF status_code = "200" /\ body.type = "list" THEN ItemNames(body.items) ELSE <<>>

\* Lines 50-90: the result for one model, given what requests.post did.
test_model_tools(model_name, outcome) ==
    IF outcome \in PostFailures
    THEN [model |-> model_name, status |-> "error",
          reason |-> <<"request exception: ", outcome>>]
    ELSE IF outcome = "200"
         THEN [model |-> model_name, status |-> "ok", http_status |-> outcome]
         ELSE [model |-> model_name, status |-> "rejected", http_status |-> outcome]

\* After the import-time query main() starts with an empty result list.
StartMain ==
    /\ pc' = "main"
    /\ calls' = <<>>
    /\ results' = <<>>

\* Lines 30-31, 45-47: the query raised; the static list stays.
DiscoverFails(e) ==
    /\ app = "check"
    /\ pc = "import"
    /\ StartMain
    /\ UNCHANGED <<app, MODELS_TO_TEST, messages, turns, turnStart, data, errKind, errText, frame>>

\* Lines 30-44: the query returned; a non-empty list of names replaces the
\* static list.
DiscoverReturns(status_code, body) ==
    /\ app = "check"
    /\ pc = "import"
    /\ MODELS_TO_TEST' = IF Names(status_code, body) # <<>>
                         THEN Names(status_code, body)
                         ELSE MODELS_TO_TEST
    /\ StartMain
    /\ UNCHANGED <<app, messages, turns, turnStart, data, errKind, errText, frame>>

\* Lines 98-100, 51-73: the loop takes the next model and posts the test request.
TestModel ==
    /\ app = "check"
    /\ pc = "main"
    /\ Len(results) < Len(MODELS_TO_TEST)
    /\ calls' = Append(calls, Pending(ChatOp, [model |-> MODELS_TO_TEST[Len(results) + 1]]))
    /\ pc' = "posting"
    /\ UNCHANGED <<app, MODELS_TO_TEST, results, messages, turns, turnStart, data, errKind, errText, frame>>

\* PostRaises with the loop given up at the first request that raises.
PostRaisesStops(e) ==
    /\ app = "check"
    /\ pc = "posting"
    /\ calls' = Returned(e)
    /\ results' = Append(results, test_model_tools(Last(calls).arg.model, e))
    /\ pc' = "done"
    /\ UNCHANGED <<app, MODELS_TO_TEST, messages, turns, turnStart, data, errKind, errText, frame>>

\* Lines 72-75, 100-101: requests.post raised; the result is appended and the
\* loop goes on.
PostRaises(e) ==
    /\ app = "check"
    /\ pc = "posting"
    /\ calls' = Returned(e)
    /\ results' = Append(results, test_model_tools(Last(calls).arg.model, e))
    /\ pc' = "main"
    /\ UNCHANGED <<app, MODELS_TO_TEST, messages, turns, turnStart, data, errKind, errText, frame>>

\* Lines 77-90, 100-101: the server answered; the result is appended and the
\* loop goes on.
PostReturns(status_code) ==
    /\ app = "check"
    /\ pc = "posting"
    /\ calls' = Returned(status_code)
    /\ results' = Append(results, test_model_tools(Last(calls).arg.model, status_code))
    /\ pc' = "main"
    /\ UNCHANGED <<app, MODELS_TO_TEST, messages, turns, turnStart, data, errKind, errText, frame>>

\* Lines 108-120: the loop is over; the summary is printed.
Summary ==
    /\ app = "check"
    /\ pc = "main"
    /\ Len(results) = Len(MODELS_TO_TEST)
    /\ pc' = "done"
    /\ UNCHANGED <<app, MODELS_TO_TEST, results, calls, messages, turns, turnStart, data, errKind, errText, frame>>

\* Lines 15-29: the script starts with the static list and queries the server.
InitCheck ==
    /\ app = "check"
    /\ MODELS_TO_TEST = StaticModels
    /\ results = <<>>
    /\ pc = "import"
    /\ calls = <<Pending(ModelsOp, <<>>)>>
    /\ messages = <<>>
    /\ turns = 0
    /\ turnStart = <<>>
    /\ data = <<>>
    /\ errKind = "none"
    /\ errText = <<>>
    /\ frame = <<>>

NextCheck ==
    \/ \E e \in PostFailures : DiscoverFails(e)
    \/ \E c \in StatusCodes, body \in ModelListings : DiscoverReturns(c, body)
    \/ TestModel
    \/ \E e \in PostFailures : PostRaises(e)
    \/ \E c \in StatusCodes : PostReturns(c)
    \/ Summary

\* One run of the tool-support checker.
SpecCheck == InitCheck /\ [][NextCheck]_vars

(***************************************************************************)
(* The claims.                                                             *)
(***************************************************************************)
\* A turn of the chat app has run to its end.
ChatTurnDone == app = "chat" /\ pc = "awaiting" /\ turns > 0

\* The first response of the turn arrived with a success status.
GotFirst == Len(data) > 0

FirstMessage == data[1].message

\* What the turn has appended to the store so far, the user's message included.
Appended == SubSeq(messages, Len(turnStart) + 1, Len(messages))

AppendedRoles == [i \in DOMAIN Appended |-> Appended[i].role]

InferenceRequests == Len(CallsOf(ChatOp))

AdapterCalls == SelectSeq(calls, LAMBDA c : c.op # ChatOp)

HasToolList == "tool_calls" \in DOMAIN FirstMessage /\ Len(FirstMessage["tool_calls"]) >= 1

\* The adapter was called and it and both requests returned without error.
AllReturned == Len(calls) = 3 /\ \A i \in DOMAIN calls : calls[i].res = "ok"

\* C1 as stated: a first response with a tool-call list of at least one entry
\* makes the turn append exactly one tool message, then exactly one assistant
\* message, and send exactly two inference requests.
C1_AsStated ==
    (ChatTurnDone /\ GotFirst /\ HasToolList)
        => /\ AppendedRoles = <<"user", "tool", "assistant">>
           /\ InferenceRequests = 2

\* C1, amended: with a tool-call list of at least one entry, the turn appends
\* exactly one tool message followed by exactly one assistant message and sends
\* exactly two inference requests when the adapter was called and it and both
\* requests returned; in every other case it appends no assistant message, at
\* most one tool message, and sends at most two requests.
C1_ToolTurn ==
    (ChatTurnDone /\ GotFirst /\ HasToolList)
        => IF AllReturned
           THEN /\ AppendedRoles = <<"user", "tool", "assistant">>
                /\ InferenceRequests = 2
                /\ Len(AdapterCalls) = 1
           ELSE /\ AppendedRoles \in {<<"user">>, <<"user", "tool">>}
                /\ InferenceRequests = Len(AppendedRoles)
                /\ errKind # "none"

C1_Witness ==
    /\ ChatTurnDone /\ GotFirst /\ HasToolList /\ AllReturned
    /\ AppendedRoles = <<"user", "tool", "assistant">>

\* C2 as stated: a first response whose tool-call list is absent or empty makes
\* the turn append exactly one assistant message holding the response content
\* and send no second request.
C2_AsStated ==
    (ChatTurnDone /\ GotFirst /\ ~HasToolList)
        => /\ Appended = <<messages[Len(turnStart) + 1],
                           [role |-> "assistant", content |-> FirstMessage.content]>>
           /\ AppendedRoles[1] = "user"
           /\ InferenceRequests = 1

\* C2, amended: the same, for a first response whose tool-call list is empty,
\* or is absent from a message that has no "tool" entry either.
C2_DirectReply ==
    (ChatTurnDone /\ GotFirst /\ ~HasToolList
       /\ ("tool_calls" \in DOMAIN FirstMessage \/ "tool" \notin DOMAIN FirstMessage))
        => /\ Appended = <<messages[Len(turnStart) + 1],
                           [role |-> "assistant", content |-> FirstMessage.content]>>
           /\ AppendedRoles[1] = "user"
           /\ InferenceRequests = 1
           /\ Len(calls) = 1
           /\ errKind = "none"

C2_Witness ==
    /\ ChatTurnDone /\ GotFirst
    /\ "tool_calls" \in DOMAIN FirstMessage /\ Len(FirstMessage["tool_calls"]) = 0
    /\ "tool" \in DOMAIN FirstMessage
    /\ AppendedRoles = <<"user", "assistant">>

\* C3 as stated: between turns, every tool message of the store is immediately
\* preceded by an assistant message and immediately followed by an assistant
\* message.
C3_ToolBetweenAssistants ==
    (app = "chat" /\ pc = "awaiting")
        => \A i \in DOMAIN messages :
              messages[i].role = "tool"
                => /\ i > 1 /\ messages[i - 1].role = "assistant"
                   /\ i < Len(messages) /\ messages[i + 1].role = "assistant"

\* An inference request of the turn failed.
RequestFailed == \E i \in DOMAIN calls : calls[i].op = ChatOp /\ calls[i].res \in HttpFailures

\* C4 as stated: when an inference request of the turn fails, the turn ends with
\* an error and the store is the store at the start of the turn plus the user's
\* message only.
C4_OnlyUserMessage ==
    (ChatTurnDone /\ RequestFailed)
        => /\ errKind # "none"
           /\ AppendedRoles = <<"user">>

\* The tools of the registry, as the claims name them.
RegisteredTools == {"list_files", "summarize_file", "create_summary_note"}

SelectedCall == DetectToolCall(FirstMessage)

\* C5: when the first response requests a tool that is not registered, the turn
\* ends with an error (the unknown-tool error whenever the arguments decode), no
\* adapter is called, nothing but the user's message is appended and no second
\* request is sent.
C5_UnknownTool ==
    (ChatTurnDone /\ GotFirst /\ Len(SelectedCall) > 0
       /\ SelectedCall[1].function.name \notin RegisteredTools)
        => /\ errKind # "none"
           /\ (DecodeArgs(GetArguments(SelectedCall[1])).type # "raise"
                 => /\ errKind = "st.error"
                    /\ errText = <<"Unknown tool requested: ", SelectedCall[1].function.name>>)
           /\ Len(AdapterCalls) = 0
           /\ AppendedRoles = <<"user">>
           /\ InferenceRequests = 1

C5_Witness ==
    /\ ChatTurnDone /\ GotFirst /\ Len(SelectedCall) > 0
    /\ SelectedCall[1].function.name = "rm_rf"
    /\ errKind = "st.error"

\* C6 as stated: no failure of a turn leaves the turn-processing code as an
\* uncaught exception.
C6_NothingUncaught == errKind # "uncaught"

\* ---- the command app --------------------------------------------------- *\
\* A turn of the command app has run to its end.
CmdTurnDone == app = "cmd" /\ pc = "awaiting" /\ turns > 0

\* The line typed in the current turn.
Prompt == messages[Len(turnStart) + 1].content

\* The words of a line: its maximal runs of characters that are not whitespace.
RECURSIVE Words(_)
Words(s) ==
    LET t == LStrip(s)
        stops == {i \in DOMAIN t : t[i] \in Whitespace}
        e == IF stops = {} THEN Len(t) ELSE (CHOOSE i \in stops : \A j \in stops : i <= j) - 1
    IN IF Len(t) = 0 THEN <<>> ELSE <<SubSeq(t, 1, e)>> \o Words(SubSeq(t, e + 1, Len(t)))

\* The commands that take arguments, as documented: the prefix, the adapter and
\* the number of arguments.
Documented ==
    {[prefix |-> P_list_dir, fn |-> "list_files_in_dir", n |-> 1],
     [prefix |-> P_get_content, fn |-> "get_file_contents", n |-> 1],
     [prefix |-> P_search, fn |-> "search_obsidian_vault", n |-> 1],
     [prefix |-> P_delete, fn |-> "delete_obsidian_file", n |-> 1],
     [prefix |-> P_create, fn |-> "create_docker_container", n |-> 1],
     [prefix |-> P_append, fn |-> "append_content", n |-> 2],
     [prefix |-> P_patch, fn |-> "patch_content", n |-> 4]}

UsageMessages == {UsageAppend, UsagePatch}

\* The line gives command c with one argument fewer than c takes.
OneFewer(c) ==
    LET w == Words(Prompt)
    IN /\ Len(w) = c.n
       /\ Lower(w[1]) = RStrip(c.prefix)

\* C7 as stated: a line that gives a command taking arguments with one argument
\* fewer than required yields that command's usage message and nothing else.
C7_UsageOnMissingArgument ==
    CmdTurnDone
        => \A c \in Documented :
              OneFewer(c)
                => /\ frame[1].fn = "none"
                   /\ Last(messages).content \in UsageMessages
                   /\ (c.fn = "append_content" => Last(messages).content = UsageAppend)
                   /\ (c.fn = "patch_content" => Last(messages).content = UsagePatch)

CountSpaces(s) == Cardinality({i \in DOMAIN s : s[i] = " "})

\* The arguments joined again by single spaces.
RECURSIVE JoinSpace(_)
JoinSpace(args) ==
    IF Len(args) = 0 THEN <<>>
    ELSE IF Len(args) = 1 THEN args[1]
    ELSE args[1] \o <<" ">> \o JoinSpace(Tail(args))

\* What follows the prefix in the normalized line, stripped.
Rest(command, prefix) == Strip(SubSeq(command, Len(prefix) + 1, Len(command)))

\* The remainder holds enough single-space separated arguments for c.
Enough(command, c) ==
    /\ StartsWith(command, c.prefix)
    /\ CountSpaces(Rest(command, c.prefix)) >= c.n - 1

\* C8: a line that matches the prefix of a command taking arguments and holds
\* enough of them makes the dispatcher call that command's adapter with exactly
\* the documented number of arguments; no argument but the last holds a space,
\* and the arguments joined by single spaces are the stripped remainder, so the
\* last argument is all the rest.
C8_Arguments ==
    (app = "cmd" /\ Len(frame) > 0)
        => \A c \in Documented :
              Enough(Lower(Strip(Prompt)), c)
                => /\ frame[1].fn = c.fn
                   /\ Len(frame[1].args) = c.n
                   /\ \A i \in 1..(c.n - 1) : " " \notin Range(frame[1].args[i])
                   /\ JoinSpace(frame[1].args) = Rest(Lower(Strip(Prompt)), c.prefix)
                   /\ (c.fn \in VaultAdapters
                         => calls[1].op = c.fn /\ calls[1].arg = frame[1].args)

C8_Witness ==
    /\ CmdTurnDone
    /\ frame[1].fn = "patch_content"
    /\ Len(frame[1].args) = 4
    /\ " " \in Range(frame[1].args[4])
    /\ Len(frame[1].args[2]) = 2

\* C9: the store is append-only in both apps: every step leaves the store it
\* found as a prefix of the store it leaves, also when the turn fails.
C9_AppendOnly == [][IsPrefix(messages, messages')]_vars

C9_Witness ==
    /\ ChatTurnDone
    /\ turns = 2
    /\ errKind = "st.error"
    /\ AppendedRoles = <<"user", "tool">>

OpAt(i) == calls[i].op

\* C10: in create_docker_container the run call comes after the image lookup
\* has returned; a lookup that reports the image absent is followed by a pull
\* of that image, which returns before the run call; a lookup that finds the
\* image is followed by no pull; and when run succeeds the message of the turn
\* holds the short identifier of the container.
C10_PullBeforeRun ==
    (app = "cmd" /\ Len(frame) > 0 /\ frame[1].fn = "create_docker_container")
        => /\ \A i \in DOMAIN calls :
                OpAt(i) = "containers.run"
                  => /\ \E j \in 1..(i - 1) : OpAt(j) = "images.get"
                     /\ \A j \in 1..(i - 1) : calls[j].res # "pending"
                     /\ calls[i].arg = frame[1].args[1]
           /\ \A j \in DOMAIN calls :
                (OpAt(j) = "images.get" /\ calls[j].res = "ImageNotFound")
                  => /\ Len(calls) > j
                     /\ OpAt(j + 1) = "images.pull"
                     /\ calls[j + 1].arg = frame[1].args[1]
                     /\ \A i \in DOMAIN calls :
                           OpAt(i) = "containers.run" => i > j + 1 /\ calls[j + 1].res = "ok"
           /\ \A j \in DOMAIN calls :
                (OpAt(j) = "images.get" /\ calls[j].res = "found")
                  => \A i \in DOMAIN calls : OpAt(i) # "images.pull"
           /\ (pc = "awaiting" /\ Last(calls).op = "containers.run" /\ Last(calls).res = "ok")
                => Container.short_id \in Range(Last(messages).content)

C10_Witness ==
    /\ CmdTurnDone
    /\ Len(calls) = 4
    /\ OpAt(2) = "images.get" /\ calls[2].res = "ImageNotFound"
    /\ OpAt(3) = "images.pull" /\ calls[3].res = "ok"
    /\ OpAt(4) = "containers.run" /\ calls[4].res = "ok"
    /\ Container.short_id \in Range(Last(messages).content)

\* ---- C11 ---------------------------------------------------------------- *\
\* The wording by which each vault adapter's error string names its operation.
OperationNamed ==
    [list_files_in_vault |-> "Error listing files from Obsidian: ",
     list_files_in_dir |-> "Error listing files in directory from Obsidian: ",
     get_file_contents |-> "Error reading file from Obsidian: ",
     append_content |-> "Error appending content to Obsidian: ",
     patch_content |-> "Error patching content to Obsidian: ",
     search_obsidian_vault |-> "Error searching Obsidian vault: ",
     delete_obsidian_file |-> "Error deleting file from Obsidian: "]

\* The HTTP call of a vault adapter failed in the current turn.
VaultCallFailed ==
    /\ Len(calls) = 1
    /\ calls[1].op \in VaultAdapters
    /\ calls[1].res \in HttpFailures

\* C11: when the HTTP call of a vault adapter fails (service unreachable or a
\* non-success status), nothing is raised and no error is shown: the turn ends
\* having appended the user's line and exactly one assistant message, whose
\* content is the adapter's error string, naming the operation that failed (a
\* different wording for each of the seven adapters) and holding the failure.
C11_VaultErrorString ==
    (CmdTurnDone /\ VaultCallFailed)
        => /\ errKind = "none"
           /\ AppendedRoles = <<"user", "assistant">>
           /\ Last(messages).content = <<OperationNamed[calls[1].op], calls[1].res>>
           /\ \A fn \in VaultAdapters \ {calls[1].op} :
                  OperationNamed[fn] # Last(messages).content[1]

C11_Witness ==
    /\ CmdTurnDone /\ VaultCallFailed
    /\ calls[1].op = "patch_content"
    /\ calls[1].res = "HTTPError"
    /\ Last(messages).role = "assistant"

\* ---- C12 ---------------------------------------------------------------- *\
\* The first response requests a registered tool with a payload that decodes.
RegisteredRequest ==
    /\ GotFirst
    /\ Len(SelectedCall) > 0
    /\ SelectedCall[1].function.name \in RegisteredTools
    /\ DecodeArgs(GetArguments(SelectedCall[1])).type # "raise"

RequestedName == SelectedCall[1].function.name

DecodedArguments == DecodeArgs(GetArguments(SelectedCall[1])).val

ToolMessages == SelectSeq(Appended, LAMBDA m : m.role = "tool")

\* The serialized form of what an adapter can return.
SerializedResults == {<<"json:", r>> : r \in AdapterResults}

\* C12 as stated: when the requested tool is registered, the adapter is invoked
\* with the decoded arguments and its outcome, a return value or an exception,
\* is serialized and appended to the store as a tool message.
C12_AsStated ==
    (ChatTurnDone /\ RegisteredRequest)
        => /\ Len(AdapterCalls) = 1
           /\ AdapterCalls[1].op = RequestedName
           /\ AdapterCalls[1].arg = DecodedArguments
           /\ Len(ToolMessages) = 1

\* C12 amended: when the requested tool is registered, the adapter is invoked
\* with the decoded arguments; when it returns, the returned value is
\* serialized and appended as one tool message named after the tool; when the
\* call raises, nothing is appended for it and the tool-failed error is shown.
C12_OutcomeAppended ==
    (ChatTurnDone /\ RegisteredRequest)
        => /\ Len(AdapterCalls) = 1
           /\ AdapterCalls[1].op = RequestedName
           /\ AdapterCalls[1].arg = DecodedArguments
           /\ IF AdapterCalls[1].res = "ok"
              THEN /\ Len(ToolMessages) = 1
                   /\ ToolMessages[1].name = RequestedName
                   /\ ToolMessages[1].content \in SerializedResults
              ELSE /\ Len(ToolMessages) = 0
                   /\ errKind = "st.error"
                   /\ errText = ToolFailedText(RequestedName, AdapterCalls[1].res)

C12_Witness ==
    /\ ChatTurnDone /\ RegisteredRequest
    /\ RequestedName = "summarize_file"
    /\ GetArguments(SelectedCall[1]).type = "str"
    /\ AdapterCalls[1].arg = [filename |-> "a.md"]
    /\ AdapterCalls[1].res = "ok"
    /\ Len(ToolMessages) = 1

\* ---- C13 ---------------------------------------------------------------- *\
\* The adapter invoked in the current turn raised.
AdapterRaised == Len(AdapterCalls) = 1 /\ AdapterCalls[1].res \notin {"ok", "pending"}

\* C13: when the adapter invoked for a tool call raises, the turn appends
\* neither a tool message nor an assistant message (only the user's message is
\* new in the store), sends no follow-up request, and ends with the tool-failed
\* error shown to the user.
C13_FailedToolCall ==
    (ChatTurnDone /\ AdapterRaised)
        => /\ AppendedRoles = <<"user">>
           /\ InferenceRequests = 1
           /\ Len(calls) = 2
           /\ errKind = "st.error"
           /\ errText = ToolFailedText(AdapterCalls[1].op, AdapterCalls[1].res)

C13_Witness ==
    /\ ChatTurnDone /\ AdapterRaised
    /\ AdapterCalls[1].res = "ConnectionError"
    /\ turns = 2
    /\ Len(messages) > Len(turnStart)

\* ---- C14 ---------------------------------------------------------------- *\
\* C14: whenever a step appends a tool message to the store, it does so inside
\* a turn (not at its start) whose first model response carried a tool call
\* naming a registered tool, and the message's name is that tool's name; so
\* after any sequence of turns every tool message in the store has such a
\* request behind it.
C14_ToolMessageRequested ==
    [][\A i \in (Len(messages) + 1)..Len(messages') :
           messages'[i].role = "tool"
               => /\ turns' = turns
                  /\ data' = data
                  /\ GotFirst
                  /\ Len(SelectedCall) > 0
                  /\ RequestedName \in RegisteredTools
                  /\ messages'[i].name = RequestedName]_vars

\* Two turns have each left a tool message in the store.
C14_Witness ==
    /\ ChatTurnDone
    /\ turns = 2
    /\ Len(ToolMessages) = 1
    /\ ToolMessages[1].name = "summarize_file"
    /\ \E i \in DOMAIN turnStart : turnStart[i].role = "tool"

\* ---- C15 ---------------------------------------------------------------- *\
\* Key/value members in the order they are written, and the JSON text that
\* writes them.
Member(k, v) == [k |-> k, v |-> v]

RECURSIVE WriteMembers(_)
WriteMembers(members) ==
    IF Len(members) = 0 THEN <<>>
    ELSE <<Str(members[1].k), Punct(":"), Str(members[1].v)>>
         \o (IF Len(members) = 1 THEN <<>> ELSE <<Punct(",")>>)
         \o WriteMembers(Tail(members))

Serialized(members) == <<Punct("{")>> \o WriteMembers(members) \o <<Punct("}")>>

\* The structured arguments the members stand for: each key with the value
\* written last for it.
Structured(members) ==
    [key \in {members[i].k : i \in DOMAIN members} |->
        LET at == {i \in DOMAIN members : members[i].k = key}
        IN members[CHOOSE i \in at : \A j \in at : j <= i].v]

MemberLists ==
    {<<>>,
     <<Member("filename", "a.md")>>,
     <<Member("filename", "b.md"), Member("filename", "a.md")>>,
     <<Member("filename", "a.md"), Member("mode", "brief")>>}

\* The adapter invocation of the current turn, and the invocation of adapter
\* name with keyword arguments kwargs.
Invocation ==
    [op |-> AdapterCalls[1].op, arg |-> AdapterCalls[1].arg,
     bound |-> AdapterCalls[1].res # "TypeError"]

InvocationOf(name, kwargs) ==
    [op |-> name, arg |-> kwargs, bound |-> DOMAIN kwargs = FUNCTION_MAP[name]]

RegisteredCall ==
    /\ app = "chat"
    /\ GotFirst
    /\ Len(SelectedCall) > 0
    /\ RequestedName \in RegisteredTools

\* C15: for a tool call naming a registered tool, a payload that arrives as
\* the serialized string of some key/value members gives the adapter
\* invocation (adapter, keyword arguments, whether they bind) that the call
\* would give with those members as already-structured arguments; and a
\* structured payload reaches the adapter unchanged.
C15_DecodedAsStructured ==
    RegisteredCall
        => LET payload == GetArguments(SelectedCall[1])
           IN /\ payload.type = "str"
                   => \A members \in MemberLists :
                          payload.text = Serialized(members)
                              => /\ Len(AdapterCalls) = 1
                                 /\ Invocation = InvocationOf(RequestedName, Structured(members))
              /\ payload.type = "dict"
                   => /\ Len(AdapterCalls) = 1
                      /\ Invocation = InvocationOf(RequestedName, payload.val)

C15_Witness ==
    /\ RegisteredCall
    /\ pc = "tool_called"
    /\ RequestedName = "summarize_file"
    /\ GetArguments(SelectedCall[1]).type = "str"
    /\ GetArguments(SelectedCall[1]).text
           = Serialized(<<Member("filename", "b.md"), Member("filename", "a.md")>>)
    /\ Invocation = InvocationOf("summarize_file", [filename |-> "a.md"])

\* ---- C16 ---------------------------------------------------------------- *\
\* C16: in a turn of the tool-calling app the external calls come one after
\* another: first an inference request, then at most one adapter call, then at
\* most one more inference request; a call is made only when every earlier
\* call of the turn has returned (only the latest can be in flight, and the
\* next one follows a successful return); and the follow-up request carries a
\* store whose last message is the tool result appended before it was sent.
C16_Sequential ==
    app = "chat"
        => /\ Len(calls) <= 3
           /\ \A i \in DOMAIN calls :
                  /\ calls[i].op = ChatOp <=> i \in {1, 3}
                  /\ i < Len(calls) => calls[i].res = "ok"
           /\ Len(calls) = 3
                  => /\ Len(ToolMessages) = 1
                     /\ Last(calls[3].arg.messages) = ToolMessages[1]
                     /\ ToolMessages[1].name = calls[2].op
                     /\ IsPrefix(calls[3].arg.messages, messages)

C16_Witness ==
    /\ app = "chat"
    /\ pc = "followup_sent"
    /\ Len(calls) = 3
    /\ calls[3].res = "pending"
    /\ calls[2].op = "create_summary_note"

\* ---- C17 ---------------------------------------------------------------- *\
\* The store as it stood when the turn had appended n messages.
StoreAfter(n) == SubSeq(messages, 1, Len(turnStart) + n)

\* C17: every inference request carries as its messages the whole store, in
\* order, as it stands when the request is sent: the first request of a turn
\* everything up to and including the user's new message, together with the
\* tool definitions; the follow-up request everything up to and including the
\* tool message, without tool definitions. While a request is in flight the
\* store is what the request carries.
C17_RequestCarriesStore ==
    app = "chat"
        => \A i \in DOMAIN calls :
               calls[i].op = ChatOp
                   => /\ i = 1 => /\ calls[i].arg.messages = StoreAfter(1)
                                  /\ Last(calls[i].arg.messages).role = "user"
                                  /\ calls[i].arg.tools
                      /\ i > 1 => /\ calls[i].arg.messages = StoreAfter(2)
                                  /\ Last(calls[i].arg.messages).role = "tool"
                                  /\ ~calls[i].arg.tools
                      /\ calls[i].res = "pending" => calls[i].arg.messages = messages

C17_Witness ==
    /\ app = "chat"
    /\ turns = 2
    /\ pc = "followup_sent"
    /\ Len(turnStart) >= 4
    /\ calls[1].arg.tools
    /\ ~calls[3].arg.tools
    /\ calls[3].arg.messages = messages

\* ---- C18 ---------------------------------------------------------------- *\
FirstEntry == FirstMessage["tool_calls"][1]

\* C18: whatever the length of the tool-call list of the first response, the
\* turn invokes at most one adapter, the one named by the list's first entry,
\* and appends at most one tool message, named after it; the later entries
\* cause no adapter call, no message and no error: an error of the turn, if
\* any, is about the first entry, and a turn whose calls all returned ends
\* without one.
C18_FirstEntryOnly ==
    (app = "chat" /\ GotFirst /\ HasToolList)
        => /\ Len(AdapterCalls) <= 1
           /\ \A i \in DOMAIN AdapterCalls : AdapterCalls[i].op = FirstEntry.function.name
           /\ Len(ToolMessages) <= 1
           /\ \A i \in DOMAIN ToolMessages : ToolMessages[i].name = FirstEntry.function.name
           /\ Len(calls) <= 3
           /\ errKind = "st.error"
                  => \/ errText = UnknownToolText(FirstEntry.function.name)
                     \/ \E e \in HttpFailures \cup {"TypeError"} :
                            errText = ToolFailedText(FirstEntry.function.name, e)
           /\ errKind = "uncaught"
                  => DecodeArgs(GetArguments(FirstEntry)).type = "raise"
           /\ (ChatTurnDone /\ AllReturned)
                  => /\ errKind = "none"
                     /\ AppendedRoles = <<"user", "tool", "assistant">>

C18_Witness ==
    /\ ChatTurnDone /\ GotFirst /\ HasToolList
    /\ Len(FirstMessage["tool_calls"]) = 2
    /\ FirstEntry.function.name = "summarize_file"
    /\ FirstMessage["tool_calls"][2].function.name = "create_summary_note"
    /\ AllReturned
    /\ AdapterCalls[1].op = "summarize_file"

\* ---- C19 ---------------------------------------------------------------- *\
\* The branch that belongs to each command prefix.
BranchOf(w) ==
    CASE w = P_help -> "help"
      [] w = P_list_all -> "list_all"
      [] w = P_list_dir -> "list_dir"
      [] w = P_get_content -> "get_content"
      [] w = P_append -> "append"
      [] w = P_patch -> "patch"
      [] w = P_search -> "search"
      [] w = P_delete -> "delete"
      [] w = P_list_images -> "list_images"
      [] w = P_list_containers -> "list_containers"
      [] w = P_create -> "create"

\* The command prefixes the normalized line of the current turn starts with.
Matching == {w \in CommandWords : IsPrefix(w, Normalize(Prompt))}

LongestMatching == CHOOSE w \in Matching : \A v \in Matching : Len(v) <= Len(w)

\* C19: for every input line the dispatcher takes the branch of the longest
\* command prefix the normalized line starts with; a line that starts with no
\* command prefix takes the last branch, which calls no adapter, and the turn
\* ends with the fixed unrecognized-command message as the assistant's reply.
C19_LongestPrefix ==
    (app = "cmd" /\ turns > 0)
        => IF Matching = {}
           THEN /\ frame[1].branch = "else"
                /\ frame[1].fn = "none"
                /\ calls = <<>>
                /\ pc = "awaiting"
                /\ Last(messages) = [role |-> "assistant", content |-> Unrecognized]
           ELSE frame[1].branch = BranchOf(LongestMatching)

\* A line typed in capitals behind a space that starts, once normalized, with
\* the list-with-argument prefix (and so with the letters of "/obsidian_list").
C19_Witness ==
    /\ CmdTurnDone
    /\ Prompt # Normalize(Prompt)
    /\ Matching = {P_list_dir}
    /\ frame[1].branch = "list_dir"
    /\ Len(calls) = 1

\* ---- C20 ---------------------------------------------------------------- *\
\* How far a chat turn has come.
Stage(p) ==
    CASE p = "awaiting" -> 0
      [] p = "request_sent" -> 1
      [] p = "tool_called" -> 2
      [] p = "followup_sent" -> 3

\* C20: provided every external call eventually returns a response or an
\* error, every turn of the tool-calling app that a user input has started
\* eventually is back at awaiting user input; and no step of a turn loops or
\* retries a call: each step of a turn in progress either ends the turn or
\* moves it on to a later stage, making no call a second time.
C20_TurnEnds ==
    /\ [][(app = "chat" /\ pc # "awaiting")
             => /\ pc' = "awaiting" \/ Stage(pc') > Stage(pc)
                /\ Len(calls') <= Len(calls) + 1
                /\ Len(calls') <= 3]_vars
    /\ (app = "chat" /\ pc # "awaiting") ~> (app = "chat" /\ pc = "awaiting")

\* A turn that ended through an error after tool execution, in a session
\* where an earlier turn ended with a reply.
C20_Witness ==
    /\ ChatTurnDone
    /\ turns = 2
    /\ Len(calls) = 3
    /\ Last(calls).res \in HttpFailures
    /\ errKind = "st.error"
    /\ Last(turnStart).role = "assistant"

\* ---- C21 ---------------------------------------------------------------- *\
\* The dispatcher of the current turn calls an adapter that takes arguments.
CallsWithArguments ==
    /\ app = "cmd"
    /\ turns > 0
    /\ frame[1].fn # "none"
    /\ Len(frame[1].args) > 0

OneArgumentAdapters ==
    {"list_files_in_dir", "get_file_contents", "search_obsidian_vault",
     "delete_obsidian_file", "create_docker_container"}

\* C21: whenever the command dispatcher calls an adapter that takes arguments,
\* the first argument it passes is a non-empty string that starts with no
\* whitespace; the single argument of a one-argument command is non-empty and
\* has no whitespace at either end; and a vault adapter's request is made with
\* exactly these arguments.
C21_FirstArgumentNonEmpty ==
    CallsWithArguments
        => /\ Len(frame[1].args[1]) > 0
           /\ frame[1].args[1][1] \notin Whitespace
           /\ frame[1].fn \in OneArgumentAdapters
                  => /\ Len(frame[1].args) = 1
                     /\ Last(frame[1].args[1]) \notin Whitespace
           /\ frame[1].fn \in VaultAdapters => calls[1].arg = frame[1].args

\* A one-argument command typed with spaces before and after its argument.
C21_Witness ==
    /\ CallsWithArguments
    /\ frame[1].fn = "delete_obsidian_file"
    /\ Last(Prompt) = " "
    /\ Len(Prompt) > Len(P_delete) + Len(frame[1].args[1]) + 1
    /\ calls[1].op = "delete_obsidian_file"

\* ---- C22 ---------------------------------------------------------------- *\
UpperCase == DOMAIN UpperToLower

\* s occurs in t as a run of consecutive characters.
OccursIn(s, t) == \E a \in 1..(Len(t) + 1) : SubSeq(t, a, a + Len(s) - 1) = s

\* C22: every argument the command dispatcher hands to an adapter is a piece
\* of the typed line in lower case: it holds no upper-case character and it
\* occurs in the lowercased line; a vault adapter's request is made with
\* exactly these arguments.
C22_ArgumentsLowercased ==
    CallsWithArguments
        => /\ \A i \in DOMAIN frame[1].args :
                  /\ Range(frame[1].args[i]) \cap UpperCase = {}
                  /\ OccursIn(frame[1].args[i], [j \in DOMAIN Prompt |-> LowerChar(Prompt[j])])
           /\ frame[1].fn \in VaultAdapters => calls[1].arg = frame[1].args

\* A query typed in capitals reaches the search adapter in lower case.
C22_Witness ==
    /\ CallsWithArguments
    /\ frame[1].fn = "search_obsidian_vault"
    /\ Prompt[1] = "/"
    /\ "B" \in Range(Prompt)
    /\ "b" \in Range(frame[1].args[1])
    /\ calls[1].arg = frame[1].args

\* ---- C23 ---------------------------------------------------------------- *\
UserMessages == SelectSeq(messages, LAMBDA m : m.role = "user")

\* C23: in the command app every turn appends the user's message first and
\* only assistant messages after it, and when the turn is over the last of
\* them, carrying the command result, is the last message of the store; the
\* number of user messages equals the number of turns, and no message has
\* role system or tool.
C23_UserFirstAssistantLast ==
    app = "cmd"
        => /\ \A i \in DOMAIN messages : messages[i].role \in {"user", "assistant"}
           /\ Len(UserMessages) = turns
           /\ turns > 0
                  => /\ Appended[1].role = "user"
                     /\ \A i \in 2..Len(Appended) : Appended[i].role = "assistant"
           /\ CmdTurnDone
                  => /\ Len(Appended) >= 2
                     /\ Last(messages).role = "assistant"

\* ---- C24 ---------------------------------------------------------------- *\
Statuses == {"ok", "rejected", "error"}

\* main() is running or has ended.
InMain == app = "check" /\ pc \in {"main", "posting", "done"}

\* C24: main produces one result per model of MODELS_TO_TEST, in list order:
\* the i-th result is for the i-th model and comes from the i-th request,
\* whatever the earlier requests did, and main ends only when every model has
\* its result; each result's status is one of ok, rejected and error: ok
\* exactly when the server answered 200, rejected exactly when it answered
\* another status, error exactly when the request raised.
C24_OneResultPerModel ==
    InMain
        => /\ Len(results) <= Len(MODELS_TO_TEST)
           /\ Len(calls) = Len(results) + (IF pc = "posting" THEN 1 ELSE 0)
           /\ pc = "done" => Len(results) = Len(MODELS_TO_TEST)
           /\ \A i \in DOMAIN results :
                  /\ results[i].model = MODELS_TO_TEST[i]
                  /\ calls[i].arg.model = MODELS_TO_TEST[i]
                  /\ results[i].status \in Statuses
                  /\ results[i].status = "ok" <=> calls[i].res = "200"
                  /\ results[i].status = "rejected" <=> calls[i].res \in StatusCodes \ {"200"}
                  /\ results[i].status = "error" <=> calls[i].res \in PostFailures

\* A finished run over the static list in which the first request raised, the
\* second was rejected and the last was accepted.
C24_Witness ==
    /\ InMain
    /\ pc = "done"
    /\ MODELS_TO_TEST = StaticModels
    /\ results[1].status = "error"
    /\ results[2].status = "rejected"
    /\ results[Len(StaticModels)].status = "ok"
====
